---------------------------- MODULE Spec2Model ----------------------------
(* Model of flow/envs/loop/wave_attenuation.py: the wave attenuation      *)
(* environments (WaveAttenuationEnv and its variants).  The simulator, the *)
(* vehicle registry and the base class Env are external; they appear here  *)
(* as the values their accessors return, drawn from small sets.            *)
EXTENDS Integers, Sequences, FiniteSets, TLC

(***************************************************************************)
(* Bounds of the model.                                                    *)
(***************************************************************************)
\* how many RL vehicle ids exist in the bookkeeping specification
NumLocalRl == 3
\* largest value the attribute num_rl takes
MaxNumRl == 2
\* how many RL vehicle ids exist in the acceleration specification
NumAccelRl == 2

(***************************************************************************)
(* Program constants.                                                      *)
(***************************************************************************)
\* "speed_limit" of the network built by reset(); scenario.max_speed
SpeedLimit == 30
\* ADDITIONAL_ENV_PARAMS["ring_length"]; scenario.length after reset()
RingLength == 260
\* max_speed normalizer of WaveAttenuationPOEnv.get_state
POMaxSpeed == 15
\* vehicle length in metres, as in v_eq_max_function
VehLength == 5
\* velocity below which compute_reward treats a speed as invalid
InvalidSpeed == -100
\* np.clip bounds of WaveAttenuationCNNIDMEnv.apply_acceleration
ClipLow == -5
ClipHigh == 3

None == "None"

\* an optional value: Nothing is Python's None, Just(x) is the value x
Nothing == <<>>

Just(x) == <<x>>

IsNothing(o) == o = Nothing

Val(o) == o[1]

\* the keys of ADDITIONAL_ENV_PARAMS in the order the dict lists them
ADDITIONAL_ENV_PARAMS == <<"max_accel", "max_decel", "ring_length">>

Variants ==
    {"WaveAttenuationEnv", "WaveAttenuationPOEnv",
     "WaveAttenuationMLPGlobalEnv", "WaveAttenuationMLPLocalEnv",
     "WaveAttenuationCNNDebugEnv", "WaveAttenuationCNNEnv",
     "WaveAttenuationCNNIDMEnv", "WaveAttenuationCNNPIEnv"}

\* the classes that inherit from WaveAttenuationCNNEnv
CNNFamily ==
    {"WaveAttenuationCNNEnv", "WaveAttenuationCNNIDMEnv",
     "WaveAttenuationCNNPIEnv"}

\* the classes whose constructor builds default_controller
FallbackVariants == {"WaveAttenuationCNNIDMEnv", "WaveAttenuationCNNPIEnv"}

(***************************************************************************)
(* Vehicle ids.  A Flow id is "<type>_<n>"; the test `"rl" in vid` of      *)
(* apply_acceleration looks at the characters of the id, here its type.    *)
(***************************************************************************)
Vid(t, k) == [type |-> t, n |-> k]

ContainsRl(vid) == vid.type = "rl"

RlVehicles(k) == {Vid("rl", i) : i \in 0..(k - 1)}

\* what get_leader and get_follower return when no vehicle is visible
NoVehicle == Vid("", 0)

(***************************************************************************)
(* Sequences.                                                              *)
(***************************************************************************)
Range(s) == {s[i] : i \in DOMAIN s}

NoDup(s) == \A i, j \in DOMAIN s : i /= j => s[i] /= s[j]

\* the duplicate-free sequences over the set S
Orders(S) ==
    {s \in UNION {[1..k -> S] : k \in 0..Cardinality(S)} : NoDup(s)}

\* position of the first occurrence of v in s, 0 when absent
IndexOf(s, v) ==
    IF v \in Range(s)
    THEN CHOOSE i \in DOMAIN s : s[i] = v /\ \A j \in 1..(i - 1) : s[j] /= v
    ELSE 0

\* list.remove(v) / deque.remove(v): drop the first occurrence of v
Remove(s, v) ==
    LET i == IndexOf(s, v)
    IN  IF i = 0 THEN s
        ELSE SubSeq(s, 1, i - 1) \o SubSeq(s, i + 1, Len(s))

\* [x for x in s if x in S]
Filter(s, S) == SelectSeq(s, LAMBDA v : v \in S)

(***************************************************************************)
(* Numbers.  A float is kept as the exact fraction n/d with d > 0.         *)
(***************************************************************************)
Frac(a, b) == [n |-> a, d |-> b]

FromInt(a) == Frac(a, 1)

FAdd(p, q) == Frac(p.n * q.d + q.n * p.d, p.d * q.d)

FMul(p, q) == Frac(p.n * q.n, p.d * q.d)

FLe(p, q) == p.n * q.d <= q.n * p.d

FLt(p, q) == p.n * q.d < q.n * p.d

FEq(p, q) == p.n * q.d = q.n * p.d

\* max([p, q]) of Python: the first of the largest
FMax(p, q) == IF FLt(p, q) THEN q ELSE p

RECURSIVE Sum(_)
Sum(s) == IF s = <<>> THEN 0 ELSE Head(s) + Sum(Tail(s))

Abs(a) == IF a < 0 THEN -a ELSE a

(***************************************************************************)
(* State.                                                                  *)
(***************************************************************************)
VARIABLES
    variant,             \* the class of the environment object
    params,              \* keys of env_params.additional_params
    phase,               \* "new" before __init__, "ready" after, "failed"
    init_error,          \* the key named by the KeyError of __init__, or None
    init_trace,          \* the steps __init__ has completed, in order
    default_controller,  \* self.default_controller: the vid of each controller
    num_rl,              \* self.num_rl
    rl_queue,            \* self.rl_queue
    rl_veh,              \* self.rl_veh
    leader,              \* self.leader
    follower,            \* self.follower
    observed,            \* ids the last additional_command handed to
                         \* vehicles.set_observed
    rl_ids,              \* vehicles.get_rl_ids()
    sorted_ids,          \* self.sorted_ids: the ids in the network by position
    sim,                 \* the simulator snapshot the registry reports
    last                 \* the call that returned last: arguments and result

envVars == <<variant, params, phase, init_error, init_trace,
             default_controller, num_rl>>

bookVars == <<rl_queue, rl_veh, leader, follower, observed>>

simVars == <<rl_ids, sorted_ids, sim>>

vars == <<envVars, bookVars, simVars, last>>

NoCall == [op |-> "none"]

NoSim == [speed |-> <<>>]

(***************************************************************************)
(* Construction.                                                           *)
(***************************************************************************)
\* a slip the check of __init__ could have: only the first key is looked at
FirstMissingOnlyFirst(keys, given) ==
    IF keys /= <<>> /\ Head(keys) \notin given THEN Head(keys) ELSE None

\* the loop of WaveAttenuationEnv.__init__: the first required key that is
\* absent from additional_params, None when all are present
RECURSIVE FirstMissing(_, _)
FirstMissing(keys, given) ==
    IF keys = <<>> THEN None
    ELSE IF Head(keys) \notin given THEN Head(keys)
    ELSE FirstMissing(Tail(keys), given)

\* WaveAttenuationEnv.__init__: the check, then Env.__init__
BaseInit(given) ==
    LET missing == FirstMissing(ADDITIONAL_ENV_PARAMS, given)
    IN  IF missing /= None
        THEN [error |-> missing, trace |-> <<>>]
        ELSE [error |-> None, trace |-> <<"Env.__init__">>]

\* the fields WaveAttenuationMLPLocalEnv.__init__ assigns before it calls
\* its parent's constructor; the other classes have no such fields (shown
\* as 0 and empty lists)
LocalFields(v) ==
    IF v = "WaveAttenuationMLPLocalEnv"
    THEN [num_rl |-> 1, trace |-> <<"fields">>]
    ELSE [num_rl |-> 0, trace |-> <<>>]

\* the list comprehension of the IDM and PI constructors, reached only when
\* the parent's constructor returned
Controllers(v, error, ids) ==
    IF v \in FallbackVariants /\ error = None
    THEN [list |-> ids, trace |-> <<"default_controller">>]
    ELSE [list |-> <<>>, trace |-> <<>>]

\* __init__ of the class v
Construct ==
    /\ phase = "new"
    /\ LET f == LocalFields(variant)
           r == BaseInit(params)
           c == Controllers(variant, r.error, rl_ids)
       IN  /\ init_error' = r.error
           /\ init_trace' = f.trace \o r.trace \o c.trace
           /\ phase' = IF r.error = None THEN "ready" ELSE "failed"
           /\ num_rl' = f.num_rl
           /\ default_controller' = c.list
           /\ last' = [op |-> "__init__"]
    /\ rl_queue' = <<>>
    /\ rl_veh' = <<>>
    /\ leader' = <<>>
    /\ follower' = <<>>
    /\ UNCHANGED <<variant, params, observed, simVars>>

\* the caller builds a fresh object from another parameter dictionary
Discard ==
    /\ phase /= "new"
    /\ \E p \in SUBSET Range(ADDITIONAL_ENV_PARAMS) :
        /\ params' = p
        /\ phase' = "new"
        /\ init_error' = None
        /\ init_trace' = <<>>
        /\ default_controller' = <<>>
        /\ num_rl' = 0
        /\ last' = NoCall
    /\ UNCHANGED <<variant, bookVars, simVars>>

InitNew ==
    /\ variant \in Variants
    /\ params \in SUBSET Range(ADDITIONAL_ENV_PARAMS)
    /\ phase = "new"
    /\ init_error = None
    /\ init_trace = <<>>
    /\ default_controller = <<>>
    /\ num_rl = 0
    /\ rl_queue = <<>>
    /\ rl_veh = <<>>
    /\ leader = <<>>
    /\ follower = <<>>
    /\ observed = {}
    /\ rl_ids \in Orders(RlVehicles(NumAccelRl))
    /\ sorted_ids = rl_ids
    /\ sim = NoSim
    /\ last = NoCall

NextNew == Construct \/ Discard

SpecNew == InitNew /\ [][NextNew]_vars

(***************************************************************************)
(* The vehicle registry and the scenario, as the accessors report them.    *)
(***************************************************************************)
\* vehicles.get_ids(): the vehicles in the network
GetIds == sorted_ids

InNetwork(v) == v \in Range(sorted_ids)

\* vehicles.get_speed(v): the registry's error value for an absent vehicle
GetSpeed(v) == IF InNetwork(v) THEN sim.speed[v] ELSE -1001

\* self.get_x_by_id(v)
GetX(v) == IF InNetwork(v) THEN sim.x[v] ELSE -1001

\* vehicles.get_headway(v)
GetHeadway(v) == IF InNetwork(v) THEN sim.headway[v] ELSE -1001

\* vehicles.get_leader(v): an id, or NoVehicle when no leader is visible
GetLeader(v) == IF InNetwork(v) THEN sim.lead[v] ELSE NoVehicle

\* vehicles.get_follower(v)
GetFollower(v) == IF InNetwork(v) THEN sim.follow[v] ELSE NoVehicle

\* vehicles.get_human_ids()
GetHumanIds == SelectSeq(sorted_ids, LAMBDA v : v \notin Range(rl_ids))

\* `x or y` of Python for an id x: "" and None are false
OrElse(x, y) == IF x = NoVehicle THEN y ELSE x

(***************************************************************************)
(* compute_reward.  A returned float is kept as (a + sqrt(b)) / d with     *)
(* integers a, b >= 0 and d > 0, so that np.std has an exact value.        *)
(***************************************************************************)
Value(p, q, r) == [a |-> p, b |-> q, d |-> r]

\* a fraction as a returned value
Rational(f) == Value(f.n, 0, f.d)

Zero == Value(0, 0, 1)

\* whether a returned value equals 0: sqrt(b) = -a
IsZero(r) == r.a <= 0 /\ r.a * r.a = r.b

Speeds(ids) == [i \in DOMAIN ids |-> GetSpeed(ids[i])]

\* WaveAttenuationEnv.compute_reward; rl_actions is optional, kwargs is the
\* dictionary of keyword arguments
BaseReward(rl_actions, kwargs) ==
    LET vel == Speeds(GetIds)
        n == Len(vel)
        acts == Val(rl_actions)
        m == Len(acts)
        absacc == [i \in 1..m |-> Abs(acts[i])]
        \* eta_2 * np.mean(vel) / 20
        speedTerm == Frac(4 * Sum(vel), 20 * n)
        \* eta * (accel_threshold - np.mean(np.abs(rl_actions)))
        accTerm == Frac(8 * (0 - Sum(absacc)), m)
    IN  IF IsNothing(rl_actions)
        THEN [raised |-> None, ret |-> Zero]
        ELSE IF \E i \in 1..n : vel[i] < InvalidSpeed
        THEN [raised |-> None, ret |-> Zero]
        ELSE IF "fail" \notin DOMAIN kwargs
        THEN [raised |-> "KeyError", ret |-> Zero]
        ELSE IF kwargs["fail"]
        THEN [raised |-> None, ret |-> Zero]
        ELSE IF m > 0 /\ Sum(absacc) > 0
        THEN [raised |-> None, ret |-> Rational(FAdd(speedTerm, accTerm))]
        ELSE [raised |-> None, ret |-> Rational(speedTerm)]

\* WaveAttenuationCNNEnv.compute_reward:
\* (0.6*np.mean(speed) + 0.4*np.std(speed))/max_speed, where
\* np.mean = s/n and np.std = sqrt(n*q - s*s)/n for the sum s of the
\* speeds and the sum q of their squares
CNNReward(rl_actions, kwargs) ==
    LET speed == Speeds(GetIds)
        n == Len(speed)
        s == Sum(speed)
        q == Sum([i \in 1..n |-> speed[i] * speed[i]])
    IN  [raised |-> None,
         ret |-> Value(6 * s, 16 * (n * q - s * s), 10 * n * SpeedLimit)]

\* the compute_reward the class v resolves to
RewardOf(v, rl_actions, kwargs) ==
    IF v \in CNNFamily THEN CNNReward(rl_actions, kwargs)
    ELSE BaseReward(rl_actions, kwargs)

ActionValues == {-2, 0, 3}

ActionLists == {<<>>} \cup {<<a>> : a \in ActionValues}

\* the keyword arguments a caller passes: none, fail=True or fail=False
Kwargs == {<<>>} \cup {[k \in {"fail"} |-> b] : b \in BOOLEAN}

ComputeReward ==
    /\ phase = "ready"
    /\ \E rl_actions \in {Nothing} \cup {Just(a) : a \in ActionLists},
          kwargs \in Kwargs :
        LET r == RewardOf(variant, rl_actions, kwargs)
        IN  last' = [op |-> "compute_reward", rl_actions |-> rl_actions,
                     kwargs |-> kwargs, vel |-> Speeds(GetIds),
                     raised |-> r.raised, ret |-> r.ret]
    /\ UNCHANGED <<envVars, bookVars, simVars>>

(***************************************************************************)
(* The state every constructor leaves behind when all keys are supplied.   *)
(***************************************************************************)
Constructed(v, ids) ==
    /\ variant = v
    /\ params = Range(ADDITIONAL_ENV_PARAMS)
    /\ phase = "ready"
    /\ init_error = BaseInit(params).error
    /\ init_trace = LocalFields(v).trace \o BaseInit(params).trace
                      \o Controllers(v, BaseInit(params).error, ids).trace
    /\ default_controller = Controllers(v, BaseInit(params).error, ids).list
    /\ num_rl = LocalFields(v).num_rl
    /\ rl_queue = <<>>
    /\ rl_veh = <<>>
    /\ leader = <<>>
    /\ follower = <<>>
    /\ observed = {}
    /\ last = NoCall

(***************************************************************************)
(* Simulator snapshots with one RL and one human vehicle.                  *)
(***************************************************************************)
Ego == Vid("rl", 0)

Other == Vid("human", 0)

Pair == {Ego, Other}

\* the ids ordered by position, as Env.sort_by_position leaves them
ByPosition(x) == IF x[Ego] <= x[Other] THEN <<Ego, Other>> ELSE <<Other, Ego>>

NoBuffer == <<>>

RewardSpeeds == {-101, 0, 10}

RewardSims ==
    {[speed |-> s, x |-> [v \in Pair |-> 0], headway |-> [v \in Pair |-> 0],
      lead |-> [v \in Pair |-> NoVehicle],
      follow |-> [v \in Pair |-> NoVehicle],
      sights_buffer |-> NoBuffer] : s \in [Pair -> RewardSpeeds]}

\* the simulator advances: the vehicles report new speeds
RewardStep ==
    /\ phase = "ready"
    /\ \E s \in RewardSims : sim' = s
    /\ last' = NoCall
    /\ UNCHANGED <<envVars, bookVars, rl_ids, sorted_ids>>

InitReward ==
    /\ \E v \in Variants : Constructed(v, <<Ego>>)
    /\ rl_ids = <<Ego>>
    /\ sorted_ids = <<Ego, Other>>
    /\ sim \in RewardSims

NextReward == ComputeReward \/ RewardStep

SpecReward == InitReward /\ [][NextReward]_vars

(***************************************************************************)
(* get_state.  Every variant returns [raised, ret, leader, follower]: ret   *)
(* lists the components of the observation in order, leader and follower   *)
(* are the values the call leaves in self.leader and self.follower.        *)
(***************************************************************************)
Returned(r) == [raised |-> None, ret |-> r, leader |-> leader,
                follower |-> follower]

Raised(e) == [raised |-> e, ret |-> <<>>, leader |-> leader,
              follower |-> follower]

\* WaveAttenuationEnv.get_state: one row [speed, position] per vehicle
BaseGetState ==
    Returned([i \in DOMAIN sorted_ids |->
                 <<Frac(GetSpeed(sorted_ids[i]), SpeedLimit),
                   Frac(GetX(sorted_ids[i]), RingLength)>>])

\* WaveAttenuationMLPGlobalEnv.get_state: the rows over get_ids(), flattened
GlobalGetState ==
    Returned([k \in 1..(2 * Len(GetIds)) |->
                 IF k % 2 = 1
                 THEN Frac(GetSpeed(GetIds[(k + 1) \div 2]), SpeedLimit)
                 ELSE Frac(GetX(GetIds[k \div 2]), RingLength)])

\* WaveAttenuationPOEnv.get_state
POGetState ==
    IF rl_ids = <<>> THEN Raised("IndexError")
    ELSE LET rl_id == rl_ids[1]
             lead_id == OrElse(GetLeader(rl_id), rl_id)
         IN  Returned(<<Frac(GetSpeed(rl_id), POMaxSpeed),
                        Frac(GetSpeed(lead_id) - GetSpeed(rl_id), POMaxSpeed),
                        Frac(GetHeadway(rl_id), RingLength)>>)

\* the five numbers WaveAttenuationMLPLocalEnv.get_state writes for rl_id
LocalEntry(rl_id) ==
    LET this_speed == GetSpeed(rl_id)
        lead_id == GetLeader(rl_id)
        follow_id == GetFollower(rl_id)
        lead_speed == IF lead_id = NoVehicle THEN SpeedLimit
                      ELSE GetSpeed(lead_id)
        lead_head == IF lead_id = NoVehicle THEN RingLength
                     ELSE GetX(lead_id) - GetX(rl_id) - VehLength
        follow_speed == IF follow_id = NoVehicle THEN 0
                        ELSE GetSpeed(follow_id)
        follow_head == IF follow_id = NoVehicle THEN RingLength
                       ELSE GetHeadway(follow_id)
    IN  <<Frac(this_speed, SpeedLimit),
          Frac(lead_speed - this_speed, SpeedLimit),
          Frac(lead_head, RingLength),
          Frac(this_speed - follow_speed, SpeedLimit),
          Frac(follow_head, RingLength)>>

\* the ids one loop of get_state appends: the visible ones, in order
Visible(ids) == SelectSeq(ids, LAMBDA v : v /= NoVehicle)

\* WaveAttenuationMLPLocalEnv.get_state
LocalGetState ==
    IF Len(rl_veh) > num_rl
    THEN \* observation[5 * num_rl] does not exist: the loop stops at the
         \* vehicle after the num_rl-th, whose ids it has already appended
         LET seen == SubSeq(rl_veh, 1, num_rl + 1)
         IN  [raised |-> "IndexError", ret |-> <<>>,
              leader |-> Visible([i \in DOMAIN seen |-> GetLeader(seen[i])]),
              follower |->
                  Visible([i \in DOMAIN seen |-> GetFollower(seen[i])])]
    ELSE [raised |-> None,
          ret |-> [k \in 1..(5 * num_rl) |->
                      LET i == ((k - 1) \div 5) + 1
                          j == ((k - 1) % 5) + 1
                      IN  IF i <= Len(rl_veh) THEN LocalEntry(rl_veh[i])[j]
                          ELSE FromInt(0)],
          leader |-> Visible([i \in DOMAIN rl_veh |-> GetLeader(rl_veh[i])]),
          follower |->
              Visible([i \in DOMAIN rl_veh |-> GetFollower(rl_veh[i])])]

\* WaveAttenuationCNNEnv.get_state and WaveAttenuationCNNDebugEnv.get_state:
\* sights_buffer / 255.
CNNGetState ==
    Returned([i \in DOMAIN sim.sights_buffer |->
                 Frac(sim.sights_buffer[i], 255)])

\* the get_state the class v resolves to
GetStateOf(v) ==
    CASE v = "WaveAttenuationEnv" -> BaseGetState
      [] v = "WaveAttenuationPOEnv" -> POGetState
      [] v = "WaveAttenuationMLPGlobalEnv" -> GlobalGetState
      [] v = "WaveAttenuationMLPLocalEnv" -> LocalGetState
      [] OTHER -> CNNGetState

GetState ==
    /\ phase = "ready"
    /\ LET r == GetStateOf(variant)
       IN  /\ leader' = r.leader
           /\ follower' = r.follower
           /\ last' = [op |-> "get_state", raised |-> r.raised, ret |-> r.ret]
    /\ UNCHANGED <<envVars, rl_queue, rl_veh, observed, simVars>>

(***************************************************************************)
(* additional_command.                                                     *)
(***************************************************************************)
\* a slip lines 365-367 could have: only the queue is searched, not rl_veh
RECURSIVE AppendEnteredQueueOnly(_, _, _)
AppendEnteredQueueOnly(queue, veh, ids) ==
    IF ids = <<>> THEN queue
    ELSE AppendEnteredQueueOnly(
             IF Head(ids) \notin Range(queue)
             THEN Append(queue, Head(ids)) ELSE queue,
             veh, Tail(ids))

\* lines 365-367: append the ids not yet tracked to the queue
RECURSIVE AppendEntered(_, _, _)
AppendEntered(queue, veh, ids) ==
    IF ids = <<>> THEN queue
    ELSE AppendEntered(
             IF Head(ids) \notin Range(queue \o veh)
             THEN Append(queue, Head(ids)) ELSE queue,
             veh, Tail(ids))

\* lines 370-372: the loop runs over a copy of the queue
RECURSIVE RemoveExitedQueue(_, _, _)
RemoveExitedQueue(copy, queue, ids) ==
    IF copy = <<>> THEN queue
    ELSE RemoveExitedQueue(
             Tail(copy),
             IF Head(copy) \notin Range(ids) THEN Remove(queue, Head(copy))
             ELSE queue,
             ids)

\* a slip lines 373-375 could have: the test inverted, so that the vehicles
\* still in the network are the ones removed
RECURSIVE RemoveStayingVeh(_, _, _)
RemoveStayingVeh(veh, i, ids) ==
    IF i > Len(veh) THEN veh
    ELSE RemoveStayingVeh(
             IF veh[i] \in Range(ids) THEN Remove(veh, veh[i]) ELSE veh,
             i + 1, ids)

\* lines 373-375: the loop runs over rl_veh itself while it removes from
\* it; i is the list iterator's index (from 1), which advances after every
\* element whether or not that element was removed
RECURSIVE RemoveExitedVeh(_, _, _)
RemoveExitedVeh(veh, i, ids) ==
    IF i > Len(veh) THEN veh
    ELSE RemoveExitedVeh(
             IF veh[i] \notin Range(ids) THEN Remove(veh, veh[i]) ELSE veh,
             i + 1, ids)

\* a slip lines 378-380 could have: pop() for popleft()
RECURSIVE FillUpFromRight(_, _, _)
FillUpFromRight(queue, veh, n) ==
    IF Len(queue) > 0 /\ Len(veh) < n
    THEN FillUpFromRight(SubSeq(queue, 1, Len(queue) - 1),
                         Append(veh, queue[Len(queue)]), n)
    ELSE [queue |-> queue, veh |-> veh]

\* a slip lines 378-380 could have: `if` for `while`
FillUpOnce(queue, veh, n) ==
    IF Len(queue) > 0 /\ Len(veh) < n
    THEN [queue |-> Tail(queue), veh |-> Append(veh, Head(queue))]
    ELSE [queue |-> queue, veh |-> veh]

\* lines 378-380: the while loop
RECURSIVE FillUp(_, _, _)
FillUp(queue, veh, n) ==
    IF Len(queue) > 0 /\ Len(veh) < n
    THEN FillUp(Tail(queue), Append(veh, Head(queue)), n)
    ELSE [queue |-> queue, veh |-> veh]

\* WaveAttenuationMLPLocalEnv.additional_command on the two lists
LocalCommand(queue, veh, ids, n) ==
    LET q1 == AppendEntered(queue, veh, ids)
        q2 == RemoveExitedQueue(q1, q1, ids)
        v2 == RemoveExitedVeh(veh, 1, ids)
    IN  FillUp(q2, v2, n)

\* the ids the call marks as observed, or the error it raises
Observe(v) ==
    CASE v = "WaveAttenuationMLPLocalEnv" ->
             [raised |-> None, ids |-> Range(leader \o follower)]
      [] v \in {"WaveAttenuationPOEnv"} \cup CNNFamily ->
             IF rl_ids = <<>> THEN [raised |-> "IndexError", ids |-> {}]
             ELSE [raised |-> None,
                   ids |-> {OrElse(GetLeader(rl_ids[1]), rl_ids[1])}]
      [] OTHER ->
             [raised |-> None,
              ids |-> IF Len(rl_ids) > 0 THEN Range(GetHumanIds) ELSE {}]

AdditionalCommand ==
    /\ phase = "ready"
    /\ LET r == IF variant = "WaveAttenuationMLPLocalEnv"
                THEN LocalCommand(rl_queue, rl_veh, rl_ids, num_rl)
                ELSE [queue |-> rl_queue, veh |-> rl_veh]
           o == Observe(variant)
       IN  /\ rl_queue' = r.queue
           /\ rl_veh' = r.veh
           /\ observed' = o.ids
           /\ last' = [op |-> "additional_command", raised |-> o.raised,
                       ids |-> rl_ids, old_queue |-> rl_queue,
                       old_veh |-> rl_veh]
    /\ UNCHANGED <<envVars, leader, follower, simVars>>

(***************************************************************************)
(* Observations: every variant, simulator values within their ranges.      *)
(***************************************************************************)
StateSpeeds == {0, 10, SpeedLimit}

StateLengths == {0, RingLength}

Pixels == {0, 255}

Sights(v) == IF v \in CNNFamily \cup {"WaveAttenuationCNNDebugEnv"}
             THEN [1..2 -> Pixels] ELSE {NoBuffer}

OtherOf(v) == IF v = Ego THEN Other ELSE Ego

StateSims(v) ==
    {[speed |-> s, x |-> x, headway |-> h, lead |-> l, follow |-> f,
      sights_buffer |-> b] :
        s \in [Pair -> StateSpeeds], x \in [Pair -> StateLengths],
        h \in [Pair -> StateLengths],
        l \in {[u \in Pair |-> IF u \in S THEN OtherOf(u) ELSE NoVehicle] :
                  S \in SUBSET Pair},
        f \in {[u \in Pair |-> IF u \in S THEN OtherOf(u) ELSE NoVehicle] :
                  S \in SUBSET Pair},
        b \in Sights(v)}

InitState ==
    /\ \E v \in Variants : Constructed(v, <<Ego>>) /\ sim \in StateSims(v)
    /\ rl_ids = <<Ego>>
    /\ sorted_ids = ByPosition(sim.x)

NextState == GetState \/ AdditionalCommand

SpecState == InitState /\ [][NextState]_vars

(***************************************************************************)
(* Bookkeeping of WaveAttenuationMLPLocalEnv: RL vehicles enter and leave  *)
(* the network between the calls.                                          *)
(***************************************************************************)
LocalRl == RlVehicles(NumLocalRl)

\* the snapshot of the bookkeeping specification: one human vehicle stays
\* in the network; on the ring it is both the leader and the follower that
\* the first RL vehicle sees, the other RL vehicles see none
LocalSim ==
    [speed |-> [v \in LocalRl \cup {Other} |-> 10],
     x |-> [v \in LocalRl \cup {Other} |-> IF v = Other THEN 100 ELSE 50],
     headway |-> [v \in LocalRl \cup {Other} |-> 45],
     lead |-> [v \in LocalRl \cup {Other} |->
                  IF v = Ego THEN Other ELSE NoVehicle],
     follow |-> [v \in LocalRl \cup {Other} |->
                    IF v = Ego THEN Other ELSE NoVehicle],
     sights_buffer |-> NoBuffer]

\* an RL vehicle enters the network
Enter ==
    /\ phase = "ready"
    /\ \E v \in LocalRl \ Range(rl_ids) :
        /\ rl_ids' = Append(rl_ids, v)
        /\ sorted_ids' = <<v>> \o sorted_ids
    /\ last' = NoCall
    /\ UNCHANGED <<envVars, bookVars, sim>>

\* an RL vehicle leaves the network
Exit ==
    /\ phase = "ready"
    /\ \E v \in Range(rl_ids) :
        /\ rl_ids' = Remove(rl_ids, v)
        /\ sorted_ids' = Remove(sorted_ids, v)
    /\ last' = NoCall
    /\ UNCHANGED <<envVars, bookVars, sim>>

\* num_rl is a plain attribute: the constructor assigns 1, and a subclass
\* or the experiment assigns another size before the first step
SetNumRl ==
    /\ phase = "ready"
    /\ variant = "WaveAttenuationMLPLocalEnv"
    /\ num_rl = LocalFields(variant).num_rl
    /\ rl_queue = <<>> /\ rl_veh = <<>> /\ last = NoCall
    /\ \E n \in 2..MaxNumRl : num_rl' = n
    /\ UNCHANGED <<variant, params, phase, init_error, init_trace,
                   default_controller, bookVars, simVars, last>>

InitLocal ==
    /\ Constructed("WaveAttenuationMLPLocalEnv", <<>>)
    /\ rl_ids = <<>>
    /\ sorted_ids = <<Other>>
    /\ sim = LocalSim

NextLocal == Enter \/ Exit \/ SetNumRl \/ AdditionalCommand \/ GetState

SpecLocal == InitLocal /\ [][NextLocal]_vars

(***************************************************************************)
(* apply_acceleration of WaveAttenuationCNNIDMEnv and                      *)
(* WaveAttenuationCNNPIEnv.  default_controller[i] is shown as the id of   *)
(* the vehicle its controller was built for; get_accel of that controller  *)
(* is the value the simulator snapshot holds for that vehicle.             *)
(***************************************************************************)
\* self.sim_step, in seconds
SimStep == Frac(1, 10)

\* np.clip(a, -5, 3)
Clip(a) == IF a < ClipLow THEN ClipLow ELSE IF a > ClipHigh THEN ClipHigh ELSE a

\* default_controller[i].get_accel(self) for the controller built for u
GetAccel(u) == sim.fallback[u]

\* the acceleration the class v applies for action a and fallback d
Blend(v, a, d) ==
    IF v = "WaveAttenuationCNNIDMEnv"
    THEN Frac(Clip(a) + d, 2)
    ELSE FromInt(a + d)

\* next_vel = max([this_vel + acc[i] * self.sim_step, 0])
NextVel(this_vel, a) == FMax(FAdd(FromInt(this_vel), FMul(a, SimStep)), FromInt(0))

\* the loop of apply_acceleration from index i on; out collects the
\* slowDown commands, acc the list as the loop rewrites it, used the vehicle
\* whose controller was asked at each index (NoVehicle when none was)
RECURSIVE ApplyLoop(_, _, _, _, _, _)
ApplyLoop(v, veh_ids, acc, i, out, used) ==
    IF i > Len(veh_ids)
    THEN [raised |-> None, commands |-> out, acc |-> acc, used |-> used]
    ELSE IF IsNothing(acc[i])
    THEN ApplyLoop(v, veh_ids, acc, i + 1, out, Append(used, NoVehicle))
    ELSE LET vid == veh_ids[i]
             this_vel == GetSpeed(vid)
         IN  IF ContainsRl(vid) /\ i > Len(default_controller)
             THEN [raised |-> "IndexError", commands |-> out, acc |-> acc,
                   used |-> used]
             ELSE LET a == IF ContainsRl(vid)
                           THEN Blend(v, Val(acc[i]),
                                      GetAccel(default_controller[i]))
                           ELSE FromInt(Val(acc[i]))
                      u == IF ContainsRl(vid) THEN default_controller[i]
                           ELSE NoVehicle
                  IN  ApplyLoop(v, veh_ids, [acc EXCEPT ![i] = Just(a)],
                                i + 1,
                                Append(out, [vid |-> vid,
                                             speed |-> NextVel(this_vel, a),
                                             duration |-> 1]),
                                Append(used, u))

apply_acceleration(v, veh_ids, acc) == ApplyLoop(v, veh_ids, acc, 1, <<>>, <<>>)

AccelRl == RlVehicles(NumAccelRl)

AccValues == {-30, 4}

\* lines 97-103: the RL ids in the order of sorted_ids, with the policy's
\* actions
ApplyRlActions ==
    /\ phase = "ready"
    /\ LET sorted_rl_ids == Filter(sorted_ids, Range(rl_ids))
       IN  \E rl_actions \in [1..Len(sorted_rl_ids) -> AccValues] :
            LET acc == [i \in DOMAIN rl_actions |-> Just(rl_actions[i])]
                r == apply_acceleration(variant, sorted_rl_ids, acc)
            IN  last' = [op |-> "apply_acceleration", veh_ids |-> sorted_rl_ids,
                         acc |-> acc, raised |-> r.raised,
                         commands |-> r.commands, acc_out |-> r.acc,
                         used |-> r.used]
    /\ UNCHANGED <<envVars, bookVars, simVars>>

\* the step of the base environment hands the human-driven vehicles and
\* their controllers' outputs, some of them None, to apply_acceleration
ApplyControlled ==
    /\ phase = "ready"
    /\ LET ids == GetHumanIds
       IN  \E acc \in [1..Len(ids) -> {Nothing} \cup {Just(a) : a \in AccValues}] :
            LET r == apply_acceleration(variant, ids, acc)
            IN  last' = [op |-> "apply_acceleration", veh_ids |-> ids,
                         acc |-> acc, raised |-> r.raised,
                         commands |-> r.commands, acc_out |-> r.acc,
                         used |-> r.used]
    /\ UNCHANGED <<envVars, bookVars, simVars>>

\* the vehicles move: their order by position changes
Reorder ==
    /\ phase = "ready"
    /\ \E i \in 1..(Len(sorted_ids) - 1) :
        sorted_ids' = [sorted_ids EXCEPT ![i] = sorted_ids[i + 1],
                                         ![i + 1] = sorted_ids[i]]
    /\ last' = NoCall
    /\ UNCHANGED <<envVars, bookVars, rl_ids, sim>>

\* an RL vehicle enters the network
EnterRl ==
    /\ phase = "ready"
    /\ \E v \in AccelRl \ Range(rl_ids) :
        /\ rl_ids' = Append(rl_ids, v)
        /\ sorted_ids' = <<v>> \o sorted_ids
    /\ last' = NoCall
    /\ UNCHANGED <<envVars, bookVars, sim>>

\* an RL vehicle leaves the network
ExitRl ==
    /\ phase = "ready"
    /\ \E v \in Range(rl_ids) :
        /\ rl_ids' = Remove(rl_ids, v)
        /\ sorted_ids' = Remove(sorted_ids, v)
    /\ last' = NoCall
    /\ UNCHANGED <<envVars, bookVars, sim>>

AccelSims ==
    {[speed |-> [v \in AccelRl \cup {Other} |-> s],
      fallback |-> [v \in AccelRl |-> d + v.n],
      x |-> [v \in AccelRl \cup {Other} |-> 0],
      headway |-> [v \in AccelRl \cup {Other} |-> 0],
      lead |-> [v \in AccelRl \cup {Other} |-> NoVehicle],
      follow |-> [v \in AccelRl \cup {Other} |-> NoVehicle],
      sights_buffer |-> NoBuffer] : s \in {0, 2}, d \in {-30, 1}}

\* the constructor has run with the RL vehicles of rl_ids in the network;
\* their order by position is any
InitAccel ==
    /\ rl_ids \in Orders(AccelRl)
    /\ \E v \in FallbackVariants : Constructed(v, rl_ids)
    /\ sorted_ids \in {o \in Orders(Range(rl_ids) \cup {Other}) :
                          Len(o) = Len(rl_ids) + 1}
    /\ sim \in AccelSims

NextAccel == ApplyRlActions \/ ApplyControlled \/ Reorder \/ EnterRl \/ ExitRl

SpecAccel == InitAccel /\ [][NextAccel]_vars

(***************************************************************************)
(* Properties.                                                             *)
(***************************************************************************)
MissingKeys == Range(ADDITIONAL_ENV_PARAMS) \ params

\* C1: in every class, __init__ with a required key missing raises KeyError
\* for a missing key before Env.__init__ runs and before default_controller
\* is built; with all three keys present it raises nothing.
C1_EagerValidation ==
    phase /= "new" =>
        IF MissingKeys /= {}
        THEN /\ phase = "failed"
             /\ init_error \in MissingKeys
             /\ "Env.__init__" \notin Range(init_trace)
             /\ "default_controller" \notin Range(init_trace)
             /\ default_controller = <<>>
        ELSE /\ phase = "ready"
             /\ init_error = None
             /\ "Env.__init__" \in Range(init_trace)

C1_Witness ==
    /\ phase = "failed"
    /\ variant = "WaveAttenuationCNNIDMEnv"
    /\ params = {"max_accel", "max_decel"}
    /\ rl_ids /= <<>>

\* C2: in every class, compute_reward returns exactly 0 and does not raise
\* when kwargs["fail"] is true or some vehicle's speed is below -100.
C2_ZeroRewardOnFailure ==
    last.op = "compute_reward" =>
        (   \/ ("fail" \in DOMAIN last.kwargs /\ last.kwargs["fail"])
            \/ \E i \in DOMAIN last.vel : last.vel[i] < InvalidSpeed
         => last.raised = None /\ IsZero(last.ret))

\* C2 in the classes that keep compute_reward of WaveAttenuationEnv
C2_ZeroRewardOnFailureInherited ==
    variant \notin CNNFamily => C2_ZeroRewardOnFailure

\* the components of an observation: WaveAttenuationEnv returns rows
Components(v, ret) ==
    IF v = "WaveAttenuationEnv"
    THEN UNION {Range(ret[i]) : i \in DOMAIN ret}
    ELSE Range(ret)

\* the simulator values the observation is built from are within range
WithinRanges ==
    \A v \in Range(sorted_ids) :
        /\ sim.speed[v] \in 0..SpeedLimit
        /\ sim.x[v] \in 0..RingLength
        /\ sim.headway[v] \in 0..RingLength

InUnitInterval(c) == FLe(FromInt(0), c) /\ FLe(c, FromInt(1))

\* C3: in every class, every component of the observation get_state
\* returns lies in [0, 1] when speeds are within [0, max_speed] and
\* positions and headways within [0, ring length].
C3_ObservationInUnitInterval ==
    (last.op = "get_state" /\ last.raised = None /\ WithinRanges) =>
        \A c \in Components(variant, last.ret) : InUnitInterval(c)

\* C3 in the classes that divide a speed by max_speed and a position by
\* the length, or a pixel by 255
C3_ObservationInUnitIntervalPlain ==
    variant \notin {"WaveAttenuationPOEnv", "WaveAttenuationMLPLocalEnv"} =>
        C3_ObservationInUnitInterval

AfterCommand == last.op = "additional_command"

\* the controlled vehicles of before the call that the call still sees
Survivors == Filter(last.old_veh, Range(last.ids))

\* the positions of rl_veh the call filled
AddedAt == {i \in DOMAIN rl_veh : rl_veh[i] \notin Range(last.old_veh)}

\* C4: a vehicle controlled before an additional_command call and still in
\* get_rl_ids() is controlled after it, in the same relative order; a
\* vehicle is added only while rl_veh holds fewer than num_rl vehicles,
\* that is after a controlled vehicle left or while the set is not full.
C4_ControlledSetStable ==
    AfterCommand =>
        /\ Filter(rl_veh, Range(Survivors)) = Survivors
        /\ \A i \in AddedAt : i - 1 < num_rl
        /\ \A i \in AddedAt, j \in DOMAIN rl_veh \ AddedAt : j < i
        /\ AddedAt /= {} =>
              \/ Len(last.old_veh) < num_rl
              \/ \E u \in Range(last.old_veh) : u \notin Range(last.ids)

C4_Witness ==
    /\ AfterCommand
    /\ Survivors /= <<>>
    /\ AddedAt /= {}
    /\ \E u \in Range(last.old_veh) : u \notin Range(last.ids)

\* the vehicles that waited before the call and that the call still sees
Waiting == Filter(last.old_queue, Range(last.ids))

\* the vehicles the call promoted, then the ones it left waiting
Line == [i \in 1..Cardinality(AddedAt) |->
            rl_veh[Len(rl_veh) - Cardinality(AddedAt) + i]] \o rl_queue

\* C5: promotion is first in, first out: the vehicles an additional_command
\* call promotes are the longest waiting ones still in the network, in
\* their order of arrival, and no vehicle queued later is promoted before
\* a vehicle queued earlier that is still in the network.
C5_PromotionIsFifo ==
    AfterCommand =>
        /\ Len(Line) >= Len(Waiting)
        /\ SubSeq(Line, 1, Len(Waiting)) = Waiting
        /\ \A i \in (Len(Waiting) + 1)..Len(Line) :
              Line[i] \notin Range(last.old_queue)

C5_Witness ==
    /\ AfterCommand
    /\ Len(Waiting) >= 2
    /\ AddedAt /= {}
    /\ rl_queue /= <<>>
    /\ \E i \in AddedAt : rl_veh[i] = Waiting[1]

\* C6: after every additional_command call the controlled set holds at
\* most num_rl vehicles, and it holds num_rl of them or the queue is empty.
C6_FilledUpToNumRl ==
    /\ variant = "WaveAttenuationMLPLocalEnv" => Len(rl_veh) <= num_rl
    /\ AfterCommand => (Len(rl_veh) = num_rl \/ rl_queue = <<>>)

C6_Witness ==
    /\ AfterCommand
    /\ num_rl > 1
    /\ Len(rl_veh) = num_rl
    /\ rl_queue /= <<>>
    /\ AddedAt /= {}

\* C7: right after an additional_command call every id in rl_veh and in
\* rl_queue is in the get_rl_ids() the call saw, for every num_rl >= 1 and
\* also when several tracked vehicles left between the same two calls.
C7_ExitedVehiclesRemoved ==
    AfterCommand => Range(rl_veh) \cup Range(rl_queue) \subseteq Range(last.ids)

\* C7 for the size the constructor sets
C7_ExitedVehiclesRemovedSizeOne ==
    num_rl = 1 => C7_ExitedVehiclesRemoved

\* the indices of the call whose action is not None
Acted == {i \in DOMAIN last.acc : ~IsNothing(last.acc[i])}

\* the speed the claim expects for vehicle vid with action a: the blended
\* acceleration of an RL vehicle uses some controller's fallback
ExpectedSpeeds(vid, a) ==
    IF ContainsRl(vid)
    THEN {FMax(FAdd(FromInt(sim.speed[vid]),
                    FMul(Blend(variant, a, sim.fallback[u]), SimStep)),
               FromInt(0)) : u \in DOMAIN sim.fallback}
    ELSE {FMax(FAdd(FromInt(sim.speed[vid]), FMul(FromInt(a), SimStep)),
               FromInt(0))}

\* C8: apply_acceleration of the IDM and PI classes issues exactly one
\* slowDown per vehicle whose action is not None, with target speed
\* max(current_speed + acc * sim_step, 0) >= 0 for the blended
\* acceleration acc, and none for a vehicle whose action is None.
C8_OneNonNegativeCommandPerAction ==
    last.op = "apply_acceleration" =>
        /\ last.raised = None
        /\ Len(last.commands) = Cardinality(Acted)
        /\ \A k \in DOMAIN last.commands :
              FLe(FromInt(0), last.commands[k].speed)
        /\ \A i \in Acted :
              \E k \in DOMAIN last.commands :
                  /\ last.commands[k].vid = last.veh_ids[i]
                  /\ k = Cardinality({j \in Acted : j <= i})
                  /\ \E e \in ExpectedSpeeds(last.veh_ids[i], Val(last.acc[i])) :
                        FEq(last.commands[k].speed, e)

\* C8 for the calls that find a controller at every index they ask for
C8_WhenEveryControllerExists ==
    (last.op = "apply_acceleration" /\ last.raised = None) =>
        C8_OneNonNegativeCommandPerAction

\* C9: for every call of apply_acceleration and every index i whose id
\* is an RL id, default_controller[i] exists and is the controller that
\* was built for veh_ids[i], whatever the order of veh_ids.
C9_FallbackOfTheSameVehicle ==
    last.op = "apply_acceleration" =>
        /\ last.raised = None
        /\ \A i \in DOMAIN last.veh_ids :
              ContainsRl(last.veh_ids[i]) =>
                  /\ i <= Len(default_controller)
                  /\ default_controller[i] = last.veh_ids[i]
                  /\ i \in Acted => last.used[i] = last.veh_ids[i]

\* C10: in every state reachable by additional_command and get_state calls
\* no id is tracked twice: rl_queue and rl_veh hold no duplicates and
\* share no id.
C10_TrackedOnce ==
    /\ NoDup(rl_queue)
    /\ NoDup(rl_veh)
    /\ Range(rl_queue) \cap Range(rl_veh) = {}

C10_Witness ==
    /\ AfterCommand
    /\ Len(rl_queue) >= 2
    /\ \E v \in Range(last.old_veh) : v \in Range(rl_veh)
    /\ \E v \in Range(last.old_queue) : v \in Range(rl_queue)

=============================================================================
